---- MODULE Spec2Model ----
(***************************************************************************)
(* External Service Gateway and Document Assembly Pipeline of the          *)
(* specification-document-agent repository.                                *)
(*                                                                         *)
(* One specification per sub-system, over shared state:                    *)
(*   SpecCred    - GitHubOAuthConfig (token cache) under GitHubApiClient   *)
(*   SpecPaged   - GitHubApiClient.getPaginated (SpecPagedFair: every      *)
(*                 awaited get() settles)                                  *)
(*   SpecTools   - the execute functions of createGitHubTools() and        *)
(*                 createAtlassianTools()                                  *)
(*   SpecDoc     - DocumentService.generateDocument over LLMService        *)
(*   SpecAnalyze - the analyze handlers                                    *)
(*   SpecResp    - response handling of the Gateway clients                *)
(*   SpecAuth    - construction of the credential providers,               *)
(*                 AtlassianAuthClient, Basic scheme                       *)
(*   SpecUpdate  - updateConfluencePage.execute                            *)
(*   SpecRender  - DocumentService.markdownToConfluence                    *)
(*   SpecFormat  - formatFileStructure                                     *)
(***************************************************************************)
EXTENDS Integers, Sequences, FiniteSets, TLC

\* ------------------------------------------------------------------ bounds
\* number of concurrent callers of one GitHubApiClient instance
NumCallers == 2
\* wall-clock horizon, in minutes
MaxTime == 4
\* token endpoint requests served over a run
MaxIssued == 2
\* shortest and longest server-declared token lifetime, in minutes
MinLife == 5
MaxLife == 7
\* largest per_page a caller passes
MaxPerPage == 2
\* largest maxPages a caller passes
MaxPagesArg == 3
\* requests one execute invocation may send before the model stops it
MaxSends == 2
\* longest Jira issue list passed to generateDocument
MaxJiraIssues == 1
\* calls made on one credential provider instance
MaxAuthCalls == 3
\* largest current version of a Confluence page
MaxVersion == 3
\* longest body of a fenced block and longest free text given to the renderer
MaxBody == 3
MaxText == 3
\* most nodes of a file tree
MaxNodes == 4

\* --------------------------------------------------------------- state
\* credential provider (GitHubOAuthConfig) and the Gateway calls using it
VARIABLES
    accessToken,    \* GitHubOAuthConfig.accessToken (Undefined or a token id)
    expiresAt,      \* GitHubOAuthConfig.expiresAt   (Undefined or ms timestamp)
    now,            \* Date.now(), in ms
    tokenRequests,  \* POSTs sent to /app/installations/:id/access_tokens
    issued,         \* tokens the endpoint has issued so far
    calls,          \* per caller: the Gateway call it is executing
    lastRefresh     \* history: the token response refreshToken cached last, and
                    \* whether the expiry it replaced was later than its own

credVars == <<accessToken, expiresAt, now, tokenRequests, issued, calls, lastRefresh>>

\* getPaginated
VARIABLES
    pgPc,        \* where the getPaginated call is
    perPage,     \* const perPage
    maxPages,    \* parameter maxPages
    page,        \* let page
    results,     \* const results: T[]
    reqPages,    \* the `page` parameter of every GET sent, in order
    fetched      \* every response get() resolved with, in order

pageVars == <<pgPc, perPage, maxPages, page, results, reqPages, fetched>>

\* tool adapter: createGitHubTools() / createAtlassianTools()
VARIABLES
    inv,         \* the execute invocation in progress
    lastKey,     \* tool and input of the invocation before it
    lastSent     \* HTTP requests that earlier invocation sent

toolVars == <<inv, lastKey, lastSent>>

\* document assembly pipeline: DocumentService.generateDocument
VARIABLES
    docPc,       \* where the generateDocument call is
    params,      \* its argument: the GitHub / Jira context
    step,        \* the section being generated, 1..5
    sections,    \* const sections: DocumentSection[]
    genCalls,    \* the prompts llmService.generateText was called with
    llmThrown,   \* the error llmService.generateText rejected with
    docResult    \* what the generateDocument promise settled with

docVars == <<docPc, params, step, sections, genCalls, llmThrown, docResult>>

\* the analyze operation: agent.post('/analyze') and POST of route.ts
VARIABLES
    anPc,          \* where the handler is
    anReq,         \* the validated request body and the handler serving it
    anJira,        \* const jiraIssues (its length)
    anDocument,    \* const document, once generateDocument has resolved
    publishCalls,  \* calls of mcpService.postToConfluence in this request
    anCalls,       \* the calls the handler has awaited so far, in order
    anFailure,     \* what an awaited call of the handler rejected with
    anResponse     \* the response the handler returned, or that it threw

anVars == <<anPc, anReq, anJira, anDocument, publishCalls, anCalls, anFailure, anResponse>>

\* response handling of the Gateway clients
VARIABLES
    rsReq,       \* the request sent: client, verb, path
    rsResp,      \* the Response fetch resolved with
    rsOut        \* what the client method settled with

rsVars == <<rsReq, rsResp, rsOut>>

\* credential providers: construction, AtlassianAuthClient, Basic scheme
VARIABLES
    auPc,             \* no instance yet / instance idle / awaiting a token / constructor threw
    auIn,             \* the constructor call: class, arguments, environment
    auInst,           \* the instance the constructor produced
    auThrown,         \* the message of the Error the constructor threw
    auNow,            \* Date.now(), in ms
    auAccessToken,    \* AtlassianAuthClient.accessToken
    auExpiresAt,      \* AtlassianAuthClient.expiresAt
    auTokenRequests,  \* requests the instance sent to a token endpoint
    auIssued,         \* tokens the token endpoint issued to the instance
    auValidUntil,     \* when the token issued last expires at the server
    auReqsWhileValid, \* token requests sent while that token was valid
    auHeaders         \* Authorization header of every API request sent

auVars ==
    <<auPc, auIn, auInst, auThrown, auNow, auAccessToken, auExpiresAt,
      auTokenRequests, auIssued, auValidUntil, auReqsWhileValid, auHeaders>>

\* updateConfluencePage.execute
VARIABLES
    upPc,        \* where the execute invocation is
    upInput,     \* its argument {pageId, title, content, version}
    upPut,       \* the PUT requests client.put sent: path and body
    upResult     \* what execute resolved with

upVars == <<upPc, upInput, upPut, upResult>>

\* the renderer: DocumentService.markdownToConfluence
VARIABLES
    mdPc,        \* idle, or returned
    mdIn,        \* the markdown text it was called with, and how it is built
    mdStages,    \* `html` after each replace, in the order they ran
    mdOut,       \* the text it returned
    mdTwice      \* what it returns when called again with mdOut

mdVars == <<mdPc, mdIn, mdStages, mdOut, mdTwice>>

\* the file-tree helper: formatFileStructure
VARIABLES
    fsPc,        \* idle, or returned
    fsIn,        \* the `structure` it was called with
    fsOut        \* the text it returned, as its lines

fsVars == <<fsPc, fsIn, fsOut>>

vars == <<credVars, pageVars, toolVars, docVars, anVars, rsVars, auVars, upVars, mdVars, fsVars>>

\* what each sub-system leaves alone
notCred == <<pageVars, toolVars, docVars, anVars, rsVars, auVars, upVars, mdVars, fsVars>>
notPaged == <<credVars, toolVars, docVars, anVars, rsVars, auVars, upVars, mdVars, fsVars>>
notTools == <<credVars, pageVars, docVars, anVars, rsVars, auVars, upVars, mdVars, fsVars>>
notDoc == <<credVars, pageVars, toolVars, anVars, rsVars, auVars, upVars, mdVars, fsVars>>
notAnalyze == <<credVars, pageVars, toolVars, docVars, rsVars, auVars, upVars, mdVars, fsVars>>
notResp == <<credVars, pageVars, toolVars, docVars, anVars, auVars, upVars, mdVars, fsVars>>
notAuth == <<credVars, pageVars, toolVars, docVars, anVars, rsVars, upVars, mdVars, fsVars>>
notUpdate == <<credVars, pageVars, toolVars, docVars, anVars, rsVars, auVars, mdVars, fsVars>>
notRender == <<credVars, pageVars, toolVars, docVars, anVars, rsVars, auVars, upVars, fsVars>>
notFormat == <<credVars, pageVars, toolVars, docVars, anVars, rsVars, auVars, upVars, mdVars>>

\* ------------------------------------------------------- credential provider
\* `undefined` of the two cache fields; like every falsy value it fails the
\* truthiness tests of getAccessToken
Undefined == 0

Minute == 60 * 1000

\* the "5 minute buffer" of getAccessToken
GuardBand == 5 * 60 * 1000

Callers == 1..NumCallers

Lifetimes == MinLife..MaxLife

\* HTTP verbs of GitHubRestClient
Verbs == {"GET", "POST", "PUT", "PATCH", "DELETE"}

\* the ways a token request can fail: fetch rejects, !response.ok, or
\* response.json() rejects
TokenFailures == {"transport", "non2xx", "badJson"}

\* outcomes of the API request of a Gateway call
HttpOutcomes == {"ok", "non2xx", "transport"}

\* a caller that is not inside a Gateway call
IdleCall ==
    [pc |-> "idle", token |-> Undefined, treq |-> 0, tresp |-> "none", http |-> 0,
     auth |-> [scheme |-> "none", token |-> Undefined]]

\* C2 mutant: the cache test without the guard band
IsFreshNoGuard(tok, exp, t) ==
    tok # Undefined /\ exp # Undefined /\ exp > t

\* the cache test of getAccessToken
IsFresh(tok, exp, t) ==
    tok # Undefined /\ exp # Undefined /\ exp > t + GuardBand

\* C3 mutant: a failed refresh is retried inside the credential provider
refreshTokenRetry(call) ==
    [call EXCEPT !.treq = @ + 1, !.tresp = "fail"]

\* refreshToken's catch block: the error is rethrown, getAccessToken and
\* getHeaders reject, the verb method rejects before its fetch
refreshTokenFailed(call) ==
    [call EXCEPT !.pc = "rejectedAuth", !.tresp = "fail"]

\* refreshToken's success path as seen by the caller: `return data.token`
refreshTokenOk(call, tok) ==
    [call EXCEPT !.pc = "haveToken", !.token = tok, !.tresp = "ok"]

\* get/post/put/patch/delete up to their first suspension: getHeaders calls
\* getAccessToken, which answers from the cache ...
GetAccessTokenCached(c, v) ==
    /\ v \in Verbs
    /\ calls[c].pc = "idle"
    /\ IsFresh(accessToken, expiresAt, now)
    /\ calls' = [calls EXCEPT ![c] =
            [IdleCall EXCEPT !.pc = "haveToken", !.token = accessToken]]
    /\ UNCHANGED <<accessToken, expiresAt, now, tokenRequests, issued, lastRefresh, notCred>>

\* ... or calls refreshToken, which signs a JWT and sends the token request
GetAccessTokenRefresh(c, v) ==
    /\ v \in Verbs
    /\ calls[c].pc = "idle"
    /\ ~IsFresh(accessToken, expiresAt, now)
    /\ tokenRequests < MaxIssued
    /\ tokenRequests' = tokenRequests + 1
    /\ calls' = [calls EXCEPT ![c] =
            [IdleCall EXCEPT !.pc = "awaitToken", !.treq = 1]]
    /\ UNCHANGED <<accessToken, expiresAt, now, issued, lastRefresh, notCred>>

\* no token response has been cached yet
NoRefresh == [token |-> Undefined, expiresAt |-> Undefined, replacedLater |-> FALSE]

\* C26 mutant: the token is cached, the expiry is left as it was
storeTokenOnly(cache, data) ==
    [accessToken |-> data.token, expiresAt |-> cache.expiresAt]

\* C30 mutant: a response is cached only when it expires later than the cache
storeTokenIfLater(cache, data) ==
    IF cache.expiresAt # Undefined /\ cache.expiresAt > data.expiresAt
    THEN cache
    ELSE [accessToken |-> data.token, expiresAt |-> data.expiresAt]

\* "Cache the token and expiration time": the two assignments of refreshToken,
\* with no suspension between them
storeToken(cache, data) ==
    [accessToken |-> data.token, expiresAt |-> data.expiresAt]

\* the token endpoint answers 2xx with {token, expires_at}: both cache fields
\* are replaced and the token is returned
TokenResponseOk(c, life) ==
    /\ calls[c].pc = "awaitToken"
    /\ LET data == [token |-> issued + 1, expiresAt |-> now + life * Minute]
           cache == storeToken([accessToken |-> accessToken, expiresAt |-> expiresAt], data)
       IN /\ issued' = issued + 1
          /\ accessToken' = cache.accessToken
          /\ expiresAt' = cache.expiresAt
          /\ lastRefresh' = [token |-> data.token, expiresAt |-> data.expiresAt,
                             replacedLater |-> expiresAt # Undefined
                                                  /\ expiresAt > data.expiresAt]
          /\ calls' = [calls EXCEPT ![c] = refreshTokenOk(@, data.token)]
    /\ UNCHANGED <<now, tokenRequests, notCred>>

\* the token request fails: nothing is cached, the error is rethrown
TokenResponseFail(c, why) ==
    /\ calls[c].pc = "awaitToken"
    /\ why \in TokenFailures
    /\ calls' = [calls EXCEPT ![c] = refreshTokenFailed(@)]
    /\ UNCHANGED <<accessToken, expiresAt, now, tokenRequests, issued, lastRefresh, notCred>>

\* C17 mutant: the Authorization header is built from the cache field
\* instead of the token getAccessToken returned to this call
getHeadersFromCache(token) == [scheme |-> "Bearer", token |-> accessToken]

\* getHeaders: Authorization: `Bearer ${token}`
getHeaders(token) == [scheme |-> "Bearer", token |-> token]

\* the verb method's fetch, carrying the headers of getHeaders
SendHttp(c) ==
    /\ calls[c].pc = "haveToken"
    /\ calls' = [calls EXCEPT ![c] = [@ EXCEPT !.pc = "awaitHttp", !.http = @ + 1,
                                               !.auth = getHeaders(calls[c].token)]]
    /\ UNCHANGED <<accessToken, expiresAt, now, tokenRequests, issued, lastRefresh, notCred>>

\* handleResponse: resolve on 2xx, throw otherwise
HttpResponse(c, r) ==
    /\ calls[c].pc = "awaitHttp"
    /\ calls' = [calls EXCEPT ![c] =
            [@ EXCEPT !.pc = IF r = "ok" THEN "resolved" ELSE "rejectedHttp"]]
    /\ UNCHANGED <<accessToken, expiresAt, now, tokenRequests, issued, lastRefresh, notCred>>

\* the promise of the call is settled; the caller may start another call
Return(c) ==
    /\ calls[c].pc \in {"resolved", "rejectedHttp", "rejectedAuth"}
    /\ calls' = [calls EXCEPT ![c] = IdleCall]
    /\ UNCHANGED <<accessToken, expiresAt, now, tokenRequests, issued, lastRefresh, notCred>>

\* time passes
Tick ==
    /\ now < MaxTime * Minute
    /\ now' = now + Minute
    /\ UNCHANGED <<accessToken, expiresAt, tokenRequests, issued, calls, lastRefresh, notCred>>

InitCred ==
    /\ accessToken = Undefined
    /\ expiresAt = Undefined
    /\ now = 0
    /\ tokenRequests = 0
    /\ issued = 0
    /\ calls = [c \in Callers |-> IdleCall]
    /\ lastRefresh = NoRefresh

NextCred ==
    \/ \E c \in Callers, v \in Verbs : GetAccessTokenCached(c, v)
    \/ \E c \in Callers, v \in Verbs : GetAccessTokenRefresh(c, v)
    \/ \E c \in Callers, life \in Lifetimes : TokenResponseOk(c, life)
    \/ \E c \in Callers, why \in TokenFailures : TokenResponseFail(c, why)
    \/ \E c \in Callers : SendHttp(c)
    \/ \E c \in Callers, r \in HttpOutcomes : HttpResponse(c, r)
    \/ \E c \in Callers : Return(c)
    \/ Tick

\* ------------------------------------------------------------ getPaginated
\* default of `params?.per_page || 100`
DefaultPerPage == 100

\* items a page can hold
Items == {"a", "b"}

\* sequences over S of length n
RECURSIVE SeqsOfLen(_, _)
SeqsOfLen(S, n) ==
    IF n = 0 THEN {<<>>}
    ELSE {Append(q, x) : q \in SeqsOfLen(S, n - 1), x \in S}

\* per_page values a caller passes; Undefined stands for an absent per_page
PerPageArgs == Undefined..MaxPerPage

\* maxPages values a caller passes
MaxPagesArgs == (0 - 1)..MaxPagesArg

\* `params?.per_page || 100`
perPageOf(arg) == IF arg = Undefined THEN DefaultPerPage ELSE arg

\* bodies the remote can answer a page request with: a JSON array of up to
\* size + 1 items, or JSON that is not an array (it carries no items)
PageResponses(size) ==
    {[isArray |-> TRUE, items |-> q] :
        q \in UNION {SeqsOfLen(Items, n) : n \in 0..(IF size > MaxPerPage THEN MaxPerPage ELSE size) + 1}}
    \cup {[isArray |-> FALSE, items |-> <<>>]}

\* C28 mutant: the loop test lets one more page through
loopTestOneMore(p, mp) == p <= mp + 1

\* `while (page <= maxPages)`
loopTest(p, mp) == p <= mp

\* `if (!Array.isArray(pageResults) || pageResults.length === 0) break`
breakOnEmpty(resp) == ~resp.isArray \/ Len(resp.items) = 0

\* C4 mutant: a short page does not end the loop
breakOnShortNever(resp, size) == FALSE

\* `if (pageResults.length < perPage) break`
breakOnShort(resp, size) == Len(resp.items) < size

\* C5 mutant: a page is put in front of the pages fetched before it
pushPageFront(acc, resp) == resp.items \o acc

\* `results.push(...pageResults)`
pushPage(acc, resp) == acc \o resp.items

\* getPaginated is called: the locals are set and the loop is entered; with
\* maxPages < 1 the body never runs and the empty results are returned
GetPaginatedCall(ppArg, mpArg) ==
    /\ pgPc = "idle"
    /\ perPage' = perPageOf(ppArg)
    /\ maxPages' = mpArg
    /\ page' = 1
    /\ results' = <<>>
    /\ reqPages' = <<>>
    /\ fetched' = <<>>
    /\ pgPc' = IF loopTest(1, mpArg) THEN "getting" ELSE "returned"
    /\ UNCHANGED notPaged

\* this.get(path, {...params, page, per_page}) has its headers: the GET is sent
PageGetSend ==
    /\ pgPc = "getting"
    /\ reqPages' = Append(reqPages, page)
    /\ pgPc' = "await"
    /\ UNCHANGED <<perPage, maxPages, page, results, fetched, notPaged>>

\* getHeaders rejects (credential refresh failed): get and getPaginated reject
\* before the GET is sent
PageGetAuthFail ==
    /\ pgPc = "getting"
    /\ pgPc' = "rejected"
    /\ UNCHANGED <<perPage, maxPages, page, results, reqPages, fetched, notPaged>>

\* the GET fails (transport, non-2xx, unparsable body): getPaginated rejects
PageGetHttpFail ==
    /\ pgPc = "await"
    /\ pgPc' = "rejected"
    /\ UNCHANGED <<perPage, maxPages, page, results, reqPages, fetched, notPaged>>

\* the GET resolves: the loop body runs on, up to the next get() or the return
PageResponse(resp) ==
    /\ pgPc = "await"
    /\ fetched' = Append(fetched, resp)
    /\ IF breakOnEmpty(resp)
       THEN /\ pgPc' = "returned"
            /\ UNCHANGED <<results, page>>
       ELSE /\ results' = pushPage(results, resp)
            /\ IF breakOnShort(resp, perPage)
               THEN /\ pgPc' = "returned"
                    /\ UNCHANGED page
               ELSE /\ page' = page + 1
                    /\ pgPc' = IF loopTest(page + 1, maxPages)
                               THEN "getting" ELSE "returned"
    /\ UNCHANGED <<perPage, maxPages, reqPages, notPaged>>

InitPaged ==
    /\ pgPc = "idle"
    /\ perPage = DefaultPerPage
    /\ maxPages = 0
    /\ page = 1
    /\ results = <<>>
    /\ reqPages = <<>>
    /\ fetched = <<>>

NextPaged ==
    \/ \E ppArg \in PerPageArgs, mpArg \in MaxPagesArgs : GetPaginatedCall(ppArg, mpArg)
    \/ PageGetSend
    \/ PageGetAuthFail
    \/ PageGetHttpFail
    \/ \E resp \in PageResponses(perPage) : PageResponse(resp)

\* ------------------------------------------------------------ tool adapter
\* the tools of createGitHubTools(): the verb of the one client call in
\* execute, whether code before that call dereferences an optional array
\* input (x.join / x.map), and whether the code after it dereferences nested
\* fields of the response
GitHubTools ==
    { [name |-> "searchRepositories", client |-> "github", verb |-> "GET", preDeref |-> FALSE, postDeref |-> TRUE],
      [name |-> "getRepository", client |-> "github", verb |-> "GET", preDeref |-> FALSE, postDeref |-> TRUE],
      [name |-> "createRepository", client |-> "github", verb |-> "POST", preDeref |-> FALSE, postDeref |-> FALSE],
      [name |-> "searchIssues", client |-> "github", verb |-> "GET", preDeref |-> FALSE, postDeref |-> TRUE],
      [name |-> "getIssue", client |-> "github", verb |-> "GET", preDeref |-> FALSE, postDeref |-> TRUE],
      [name |-> "createIssue", client |-> "github", verb |-> "POST", preDeref |-> FALSE, postDeref |-> FALSE],
      [name |-> "updateIssue", client |-> "github", verb |-> "PATCH", preDeref |-> FALSE, postDeref |-> FALSE],
      [name |-> "listPullRequests", client |-> "github", verb |-> "GET", preDeref |-> FALSE, postDeref |-> TRUE],
      [name |-> "getPullRequest", client |-> "github", verb |-> "GET", preDeref |-> FALSE, postDeref |-> TRUE],
      [name |-> "createPullRequest", client |-> "github", verb |-> "POST", preDeref |-> FALSE, postDeref |-> FALSE],
      [name |-> "getUser", client |-> "github", verb |-> "GET", preDeref |-> FALSE, postDeref |-> FALSE],
      [name |-> "listBranches", client |-> "github", verb |-> "GET", preDeref |-> FALSE, postDeref |-> TRUE],
      [name |-> "listCommits", client |-> "github", verb |-> "GET", preDeref |-> FALSE, postDeref |-> TRUE] }

\* the tools of createAtlassianTools()
AtlassianTools ==
    { [name |-> "searchJiraIssues", client |-> "atlassian", verb |-> "GET", preDeref |-> TRUE, postDeref |-> TRUE],
      [name |-> "getJiraIssue", client |-> "atlassian", verb |-> "GET", preDeref |-> TRUE, postDeref |-> FALSE],
      [name |-> "createJiraIssue", client |-> "atlassian", verb |-> "POST", preDeref |-> TRUE, postDeref |-> FALSE],
      [name |-> "searchConfluenceContent", client |-> "atlassian", verb |-> "GET", preDeref |-> FALSE, postDeref |-> TRUE],
      [name |-> "getConfluencePage", client |-> "atlassian", verb |-> "GET", preDeref |-> TRUE, postDeref |-> TRUE],
      [name |-> "createConfluencePage", client |-> "atlassian", verb |-> "POST", preDeref |-> FALSE, postDeref |-> TRUE],
      [name |-> "updateConfluencePage", client |-> "atlassian", verb |-> "PUT", preDeref |-> FALSE, postDeref |-> TRUE] }

Tools == GitHubTools \cup AtlassianTools

\* verbs with a side effect on the target API
MutatingVerbs == {"POST", "PUT", "PATCH"}

\* the object execute is invoked with, against the tool's inputSchema: valid;
\* a required field missing; a scalar field of the wrong type; an optional
\* array field (fields, expand, components) that is not an array
ToolInputs == {"valid", "missingRequired", "wrongTypeScalar", "wrongTypeArray"}

\* what the target API answers the client call with: a failure of fetch, a
\* non-2xx status, a 2xx body that is not JSON, 204 without a body, or a 2xx
\* JSON body that is complete, lacks the fields the tool reads, or is null
ToolHttpOutcomes ==
    {"transport", "non2xx", "badJson", "noContent", "okComplete", "okLacking", "okNull"}

NoKey == [tool |-> "none", input |-> "none"]

IdleInv ==
    [pc |-> "idle", tool |-> "none", input |-> "none", verb |-> "none",
     authFailed |-> FALSE, outcome |-> "none", result |-> "none", sent |-> 0]

\* C6 mutant: the catch block rethrows instead of returning {error}
catchRethrow(i) ==
    [i EXCEPT !.pc = "settled", !.result = "rejected"]

\* `catch (error) { return { error: `Failed to ...: ${message}` } }`
catchToError(i) ==
    [i EXCEPT !.pc = "settled", !.result = "error"]

\* the code between `try {` and the client call throws a TypeError exactly
\* when it calls join / map on an optional input that is not an array; no
\* tool checks its input against inputSchema
preCallThrows(tool, input) == tool.preDeref /\ input = "wrongTypeArray"

\* what the client method resolves or rejects with.  GitHubApiClient
\* .handleResponse answers 204 with {}; the Atlassian client calls
\* response.json() on every 2xx response
clientResult(tool, outcome) ==
    CASE outcome \in {"transport", "non2xx", "badJson"} -> "throws"
      [] outcome = "noContent" ->
            IF tool.client = "github" THEN "lacking" ELSE "throws"
      [] outcome = "okComplete" -> "complete"
      [] outcome = "okLacking" -> "lacking"
      [] outcome = "okNull" -> "null"

\* the `return { ... }` after the client call throws a TypeError when it
\* reads a property of null or of a missing nested field
mappingThrows(tool, shape) ==
    shape = "null" \/ (shape = "lacking" /\ tool.postDeref)

\* C8 mutant: a failed request is sent again
onClientResultRetry(i, tool, outcome) ==
    IF clientResult(tool, outcome) = "throws"
    THEN [i EXCEPT !.pc = "auth"]
    ELSE IF mappingThrows(tool, clientResult(tool, outcome))
         THEN catchToError(i)
         ELSE [i EXCEPT !.pc = "settled", !.result = "ok"]

\* the rest of the try block once the client call has settled
onClientResult(i, tool, outcome) ==
    IF clientResult(tool, outcome) = "throws"
    THEN catchToError(i)
    ELSE IF mappingThrows(tool, clientResult(tool, outcome))
         THEN catchToError(i)
         ELSE [i EXCEPT !.pc = "settled", !.result = "ok"]

ToolOf(i) == CHOOSE t \in Tools : t.name = i.tool

\* execute(input) is called: the try block runs up to the client call, whose
\* first step is to ask the credential provider for a token
Execute(tool, input) ==
    /\ inv.pc = "idle"
    /\ LET started == [IdleInv EXCEPT !.tool = tool.name, !.input = input,
                                      !.verb = tool.verb]
       IN inv' = IF preCallThrows(tool, input)
                 THEN catchToError(started)
                 ELSE [started EXCEPT !.pc = "auth"]
    /\ UNCHANGED <<lastKey, lastSent, notTools>>

\* the credential provider rejects: the client method rejects before fetch
ToolAuthFail ==
    /\ inv.pc = "auth"
    /\ inv' = catchToError([inv EXCEPT !.authFailed = TRUE])
    /\ UNCHANGED <<lastKey, lastSent, notTools>>

\* the credential provider resolves: the client method sends its request
ToolSend ==
    /\ inv.pc = "auth"
    /\ inv.sent < MaxSends
    /\ inv' = [inv EXCEPT !.pc = "awaitHttp", !.sent = @ + 1]
    /\ UNCHANGED <<lastKey, lastSent, notTools>>

\* the request settles and execute runs to its return
ToolHttpResponse(outcome) ==
    /\ inv.pc = "awaitHttp"
    /\ inv' = onClientResult([inv EXCEPT !.outcome = outcome], ToolOf(inv), outcome)
    /\ UNCHANGED <<lastKey, lastSent, notTools>>

\* the promise of execute has settled; the next invocation may start
ToolReturn ==
    /\ inv.pc = "settled"
    /\ lastKey' = [tool |-> inv.tool, input |-> inv.input]
    /\ lastSent' = inv.sent
    /\ inv' = IdleInv
    /\ UNCHANGED notTools

InitTools ==
    /\ inv = IdleInv
    /\ lastKey = NoKey
    /\ lastSent = 0

NextTools ==
    \/ \E tool \in Tools, input \in ToolInputs : Execute(tool, input)
    \/ ToolAuthFail
    \/ ToolSend
    \/ \E outcome \in ToolHttpOutcomes : ToolHttpResponse(outcome)
    \/ ToolReturn

\* ------------------------------------------------ document assembly pipeline
\* the repositories and Jira issue lists generateDocument is called with
Repos == {"owner/repoA", "owner/repoB"}

DocParams == [githubData : Repos, jiraIssues : 0..MaxJiraIssues]

\* texts the generation backend can answer with
Texts == {"text1", "text2"}

\* what the generation backend can throw: an Error with a message, or a
\* value that is not an Error
BackendErrors ==
    { [isError |-> TRUE, message |-> "rate limit exceeded"],
      [isError |-> FALSE, message |-> "none"] }

NoResult == [kind |-> "none"]

NoError == [message |-> <<>>]

\* the prompt types generatePrompt knows
PromptTypes == {"overview", "requirements", "architecture", "dataflow", "technical"}

\* C24 mutant: the prompt is rendered over the text the step before returned
generatePromptWithHistory(type, data) ==
    [template |-> type,
     data |-> IF sections = <<>> THEN data
              ELSE [data EXCEPT !.githubData = sections[Len(sections)].content]]

\* generatePrompt(type, data): a text built from the type's template and the
\* data; an unknown type throws
generatePrompt(type, data) ==
    IF type \in PromptTypes
    THEN [template |-> type, data |-> data]
    ELSE [template |-> "throw: Unknown prompt type", data |-> data]

\* C9 mutant: dataflow is generated before architecture
PipelineStepsSwapped ==
    << [prompt |-> "overview", type |-> "overview"],
       [prompt |-> "requirements", type |-> "requirements"],
       [prompt |-> "dataflow", type |-> "dataflow"],
       [prompt |-> "architecture", type |-> "architecture"],
       [prompt |-> "technical", type |-> "technical-details"] >>

\* the five blocks of generateDocument: the prompt type passed to
\* generatePrompt and the type of the section pushed
PipelineSteps ==
    << [prompt |-> "overview", type |-> "overview"],
       [prompt |-> "requirements", type |-> "requirements"],
       [prompt |-> "architecture", type |-> "architecture"],
       [prompt |-> "dataflow", type |-> "dataflow"],
       [prompt |-> "technical", type |-> "technical-details"] >>

\* LLMService.generateText's catch block: the backend's error is replaced by
\* a new Error carrying its message behind a fixed prefix
llmServiceError(e) ==
    [message |-> <<"Failed to generate text: ",
                   IF e.isError THEN e.message ELSE "Unknown error">>]

\* `const document = {title, sections, metadata}` of generateDocument
makeDocument(p, secs) ==
    [kind |-> "document",
     title |-> p.githubData,
     sections |-> secs,
     jiraProject |-> IF p.jiraIssues = 0 THEN "Unknown" ELSE "PROJ"]

\* C10 mutant: a failed step returns the sections generated so far
stepFailedPartial(p, secs, err) == makeDocument(p, secs)

\* `await this.llmService.generateText(...)` rejects inside generateDocument,
\* which has no try block: its promise rejects with that error
stepFailed(p, secs, err) == [kind |-> "error", error |-> err]

\* C23 mutant: the five generation calls are started together by the first
\* block and awaited afterwards
startBlockTogether(k, p) ==
    IF k = 1
    THEN [j \in 1..Len(PipelineSteps) |-> generatePrompt(PipelineSteps[j].prompt, p)]
    ELSE <<>>

\* the generation calls block k makes before its await: one, with the prompt
\* of the block's type rendered from the parameters
startBlock(k, p) ==
    <<generatePrompt(PipelineSteps[k].prompt, p)>>

\* generateDocument is called: the overview prompt is rendered and the first
\* generation call is made
GenerateDocument(p) ==
    /\ docPc = "idle"
    /\ params' = p
    /\ step' = 1
    /\ sections' = <<>>
    /\ genCalls' = startBlock(1, p)
    /\ docPc' = "awaitLLM"
    /\ UNCHANGED <<llmThrown, docResult, notDoc>>

\* llmService.generateText resolves with a text: the section is pushed and
\* the next block runs up to its generation call, or the document is returned
LlmResolve(text) ==
    /\ docPc = "awaitLLM"
    /\ LET secs == Append(sections,
                     [type |-> PipelineSteps[step].type, content |-> text])
       IN /\ sections' = secs
          /\ IF step < Len(PipelineSteps)
             THEN /\ step' = step + 1
                  /\ genCalls' = genCalls \o startBlock(step + 1, params)
                  /\ UNCHANGED <<docPc, docResult>>
             ELSE /\ docResult' = makeDocument(params, secs)
                  /\ docPc' = "returned"
                  /\ UNCHANGED <<step, genCalls>>
    /\ UNCHANGED <<params, llmThrown, notDoc>>

\* the backend throws: llmService.generateText rejects with its own Error
LlmReject(e) ==
    /\ docPc = "awaitLLM"
    /\ llmThrown' = llmServiceError(e)
    /\ docResult' = stepFailed(params, sections, llmServiceError(e))
    /\ docPc' = IF docResult'.kind = "document" THEN "returned" ELSE "rejected"
    /\ UNCHANGED <<params, step, sections, genCalls, notDoc>>

InitDoc ==
    /\ docPc = "idle"
    /\ params = [githubData |-> "owner/repoA", jiraIssues |-> 0]
    /\ step = 1
    /\ sections = <<>>
    /\ genCalls = <<>>
    /\ llmThrown = NoError
    /\ docResult = NoResult

NextDoc ==
    \/ \E p \in DocParams : GenerateDocument(p)
    \/ \E text \in Texts : LlmResolve(text)
    \/ \E e \in BackendErrors : LlmReject(e)

\* -------------------------------------------------------- analyze operation
\* the two handlers of the analyze operation
Handlers == {"hono", "next"}

\* an optional string (`string | undefined`): <<>> is undefined, <<s>> is s
Absent == <<>>

\* confluenceSpaceKey: z.string().optional() admits undefined, the empty
\* string and a key
SpaceKeys == {Absent, <<"">>, <<"DOCS">>}

AnalyzeRequests == [handler : Handlers, githubRepo : Repos, confluenceSpaceKey : SpaceKeys]

\* what an awaited call can reject with: Error objects and a non-Error value
Failures ==
    { [isError |-> TRUE, message |-> "Failed to get GitHub repository: timeout"],
      [isError |-> TRUE, message |-> "MCP server exited with code 1: "],
      [isError |-> FALSE, message |-> "none"] }

NoFailure == [isError |-> FALSE, message |-> "no failure"]

\* `llmService.generateText()` of route.ts line 40: generateText destructures
\* its undefined argument and rejects with a TypeError
NoParamsTypeError ==
    [isError |-> TRUE, message |-> "Cannot destructure property 'provider' of 'params' as it is undefined."]

PublishUrls == {<<"https://wiki/spaces/DOCS/pages/p1">>, <<"https://wiki/spaces/DOCS/pages/p2">>}

NoResponse == [status |-> "none"]

\* JavaScript truthiness of `data.confluenceSpaceKey`
truthy(v) == v # Absent /\ v # <<"">>

\* C11 mutant: the publish step runs whether or not a space key was given
publishWantedAlways(req) == TRUE

\* `if (data.confluenceSpaceKey)`
publishWanted(req) == truthy(req.confluenceSpaceKey)

\* C12 mutant: the catch block rethrows
catchResponseRethrow(e) == [status |-> "thrown", error |-> e.message]

\* the catch block: {status: 'error', error: error.message | 'Unknown error occurred'}, 500
catchResponse(e) ==
    [status |-> "error",
     error |-> IF e.isError THEN e.message ELSE "Unknown error occurred",
     http |-> 500]

\* {status: 'success', documentUrl}
successResponse(url) == [status |-> "success", documentUrl |-> url, http |-> 200]

\* an awaited call of the try block rejects with e
AnalyzeFail(e) ==
    /\ anFailure' = e
    /\ anResponse' = catchResponse(e)
    /\ anPc' = "responded"

\* the first call the handler awaits: getGithubRepository in part_002, and
\* llmService.generateText in route.ts
firstCall(req) ==
    IF req.handler = "hono" THEN "getGithubRepository" ELSE "generateText"

\* the handler is entered with a validated body; it runs up to its first await
AnalyzeRequest(req) ==
    /\ anPc \in {"idle", "responded"}
    /\ anReq' = req
    /\ anJira' = 0
    /\ anDocument' = NoResult
    /\ publishCalls' = 0
    /\ anCalls' = <<firstCall(req)>>
    /\ anFailure' = NoFailure
    /\ anResponse' = NoResponse
    /\ anPc' = IF req.handler = "hono" THEN "github" ELSE "generateTextNoArgs"
    /\ UNCHANGED notAnalyze

\* route.ts: `await llmService.generateText()` rejects
NextGenerateTextRejects ==
    /\ anPc = "generateTextNoArgs"
    /\ AnalyzeFail(NoParamsTypeError)
    /\ UNCHANGED <<anReq, anJira, anDocument, publishCalls, anCalls, notAnalyze>>

\* mcpService.getGithubRepository resolves; getJiraIssues is called
GithubResolve ==
    /\ anPc = "github"
    /\ anPc' = "jira"
    /\ anCalls' = Append(anCalls, "getJiraIssues")
    /\ UNCHANGED <<anReq, anJira, anDocument, publishCalls, anFailure, anResponse, notAnalyze>>

\* mcpService.getJiraIssues resolves; generateDocument is called
JiraResolve(n) ==
    /\ anPc = "jira"
    /\ anJira' = n
    /\ anPc' = "generate"
    /\ anCalls' = Append(anCalls, "generateDocument")
    /\ UNCHANGED <<anReq, anDocument, publishCalls, anFailure, anResponse, notAnalyze>>

\* documentService.generateDocument resolves: the publish step runs up to
\* its await, or the success response is returned
DocumentResolve(secs) ==
    /\ anPc = "generate"
    /\ anDocument' = makeDocument([githubData |-> anReq.githubRepo, jiraIssues |-> anJira], secs)
    /\ IF publishWanted(anReq)
       THEN /\ publishCalls' = publishCalls + 1
            /\ anCalls' = Append(anCalls, "postToConfluence")
            /\ anPc' = "publish"
            /\ UNCHANGED anResponse
       ELSE /\ anResponse' = successResponse(Absent)
            /\ anPc' = "responded"
            /\ UNCHANGED <<publishCalls, anCalls>>
    /\ UNCHANGED <<anReq, anJira, anFailure, notAnalyze>>

\* C29 mutant: the rejection of generateDocument is swallowed and the
\* handler goes on to publish
DocumentRejectThenPublish(b) ==
    /\ anPc = "generate"
    /\ anFailure' = [isError |-> TRUE, message |-> llmServiceError(b).message]
    /\ publishCalls' = publishCalls + 1
    /\ anCalls' = Append(anCalls, "postToConfluence")
    /\ anPc' = "publish"
    /\ UNCHANGED <<anReq, anJira, anDocument, anResponse, notAnalyze>>

\* documentService.generateDocument rejects with the error of llmService
DocumentReject(b) ==
    /\ anPc = "generate"
    /\ AnalyzeFail([isError |-> TRUE, message |-> llmServiceError(b).message])
    /\ UNCHANGED <<anReq, anJira, anDocument, publishCalls, anCalls, notAnalyze>>

\* mcpService.postToConfluence resolves with the page URL
PublishResolve(url) ==
    /\ anPc = "publish"
    /\ anResponse' = successResponse(url)
    /\ anPc' = "responded"
    /\ UNCHANGED <<anReq, anJira, anDocument, publishCalls, anCalls, anFailure, notAnalyze>>

\* getGithubRepository, getJiraIssues or postToConfluence rejects
ServiceReject(e) ==
    /\ anPc \in {"github", "jira", "publish"}
    /\ AnalyzeFail(e)
    /\ UNCHANGED <<anReq, anJira, anDocument, publishCalls, anCalls, notAnalyze>>

InitAnalyze ==
    /\ anPc = "idle"
    /\ anReq = [handler |-> "hono", githubRepo |-> "owner/repoA", confluenceSpaceKey |-> Absent]
    /\ anJira = 0
    /\ anDocument = NoResult
    /\ publishCalls = 0
    /\ anCalls = <<>>
    /\ anFailure = NoFailure
    /\ anResponse = NoResponse

NextAnalyze ==
    \/ \E req \in AnalyzeRequests : AnalyzeRequest(req)
    \/ NextGenerateTextRejects
    \/ GithubResolve
    \/ \E n \in 0..MaxJiraIssues : JiraResolve(n)
    \/ \E text \in Texts : DocumentResolve([k \in 1..5 |-> [type |-> PipelineSteps[k].type, content |-> text]])
    \/ \E b \in BackendErrors : DocumentReject(b)
    \/ \E url \in PublishUrls : PublishResolve(url)
    \/ \E e \in Failures : ServiceReject(e)

\* --------------------------------------------------------- response handling
\* strings are sequences of pieces; a template literal concatenates them
BaseUrl == "https://api.github.com"

\* paths callers pass, with and without the leading slash
Paths == { <<"/", "repos/o/r">>, <<"repos/o/r">>, <<"/", "user">> }

GitHubVerbs == {"GET", "POST", "PUT", "PATCH", "DELETE"}

AtlassianClients == {"atlassianOAuth", "atlassianBasic"}

AtlassianVerbs == {"GET", "POST", "PUT"}

\* status and statusText of a Response
Statuses ==
    { [code |-> 200, text |-> "OK"],
      [code |-> 201, text |-> "Created"],
      [code |-> 204, text |-> "No Content"],
      [code |-> 404, text |-> "Not Found"],
      [code |-> 422, text |-> "Unprocessable Entity"],
      [code |-> 502, text |-> "Bad Gateway"] }

\* Response.ok
ok(status) == status.code >= 200 /\ status.code <= 299

\* bodies: the raw text, whether JSON.parse accepts it, and what it yields
Bodies ==
    { [raw |-> "{\"message\":\"Not Found\"}", parses |-> TRUE, isNull |-> FALSE,
       message |-> <<"Not Found">>, errors |-> Absent],
      [raw |-> "{\"message\":\"Validation Failed\",\"errors\":[{\"code\":\"missing\"}]}",
       parses |-> TRUE, isNull |-> FALSE,
       message |-> <<"Validation Failed">>, errors |-> <<"[{\"code\":\"missing\"}]">>],
      [raw |-> "{\"id\":1}", parses |-> TRUE, isNull |-> FALSE,
       message |-> Absent, errors |-> Absent],
      [raw |-> "null", parses |-> TRUE, isNull |-> TRUE,
       message |-> Absent, errors |-> Absent],
      [raw |-> "<html>upstream timed out</html>", parses |-> FALSE, isNull |-> FALSE,
       message |-> Absent, errors |-> Absent],
      [raw |-> "", parses |-> FALSE, isNull |-> FALSE,
       message |-> Absent, errors |-> Absent] }

\* the Responses fetch can resolve with: 204 carries no body
Responses ==
    { r \in [status : Statuses, body : Bodies] :
          r.status.code = 204 => r.body.raw = "" }

NoRequest == [client |-> "none", verb |-> "none", path |-> <<>>]

NoFetchResponse == [status |-> [code |-> 0, text |-> ""], body |-> CHOOSE b \in Bodies : b.raw = ""]

\* buildUrl(path): baseUrl + path, a slash put in front of a path without one
buildUrl(path) ==
    IF path[1] = "/" THEN <<BaseUrl>> \o path ELSE <<BaseUrl, "/">> \o path

\* Response.json(): reads the body, then parses it
responseJson(body) ==
    IF body.parses THEN [thrown |-> FALSE, value |-> body.raw]
    ELSE [thrown |-> TRUE, value |-> "SyntaxError"]

\* Response.text(): rejects with a TypeError once the body has been read
responseText(body, bodyUsed) ==
    IF bodyUsed THEN [thrown |-> TRUE, value |-> "TypeError: body used already"]
    ELSE [thrown |-> FALSE, value |-> body.raw]

\* a string appended to errorMessage when it is truthy
appendIfTruthy(opt) ==
    IF opt # Absent /\ opt # <<"">> THEN <<" - ">> \o opt ELSE <<>>

\* the details handleResponse appends to errorMessage: from the JSON body,
\* and from response.text() when reading the JSON body threw
errorDetails(body) ==
    IF body.parses /\ ~body.isNull
    THEN appendIfTruthy(body.message) \o appendIfTruthy(body.errors)
    ELSE LET t == responseText(body, TRUE)
         IN IF t.thrown THEN <<>> ELSE appendIfTruthy(<<t.value>>)

\* C14 mutant: the message names no endpoint
gitHubErrorMessageNoUrl(url, status, body) ==
    <<"GitHub API error: ", ToString(status.code), " ", status.text>> \o errorDetails(body)

\* `Failed to ${response.url}: GitHub API error: ${status} ${statusText}...`
gitHubErrorMessage(url, status, body) ==
    <<"Failed to ">> \o url \o <<": ", "GitHub API error: ", ToString(status.code), " ", status.text>>
        \o errorDetails(body)

\* GitHubApiClient.handleResponse
handleResponse(url, resp) ==
    IF ~ok(resp.status)
    THEN [kind |-> "rejected", message |-> gitHubErrorMessage(url, resp.status, resp.body), value |-> ""]
    ELSE IF resp.status.code = 204
         THEN [kind |-> "resolved", message |-> <<>>, value |-> "{}"]
         ELSE LET j == responseJson(resp.body)
              IN IF j.thrown
                 THEN [kind |-> "rejected", message |-> <<j.value>>, value |-> ""]
                 ELSE [kind |-> "resolved", message |-> <<>>, value |-> j.value]

\* the response part of AtlassianOAuthClient / AtlassianBasicAuthClient
\* get, post and put
atlassianResponse(verb, path, resp) ==
    IF ~ok(resp.status)
    THEN [kind |-> "rejected",
          message |-> <<"Failed to ", verb, " ">> \o path
                         \o <<": ", ToString(resp.status.code), " ", resp.status.text, " - ",
                              responseText(resp.body, FALSE).value>>,
          value |-> ""]
    ELSE LET j == responseJson(resp.body)
         IN IF j.thrown
            THEN [kind |-> "rejected", message |-> <<j.value>>, value |-> ""]
            ELSE [kind |-> "resolved", message |-> <<>>, value |-> j.value]

\* a GitHubApiClient verb receives the Response of its request
GitHubRespond(verb, path, resp) ==
    /\ rsReq' = [client |-> "github", verb |-> verb, path |-> path]
    /\ rsResp' = resp
    /\ rsOut' = LET out == handleResponse(buildUrl(path), resp)
                IN IF verb = "DELETE" /\ out.kind = "resolved"
                   THEN [out EXCEPT !.value = "undefined"]
                   ELSE out
    /\ UNCHANGED notResp

\* an Atlassian client verb receives the Response of its request
AtlassianRespond(client, verb, path, resp) ==
    /\ rsReq' = [client |-> client, verb |-> verb, path |-> path]
    /\ rsResp' = resp
    /\ rsOut' = atlassianResponse(verb, path, resp)
    /\ UNCHANGED notResp

InitResp ==
    /\ rsReq = NoRequest
    /\ rsResp = NoFetchResponse
    /\ rsOut = [kind |-> "none", message |-> <<>>, value |-> ""]

NextResp ==
    \/ \E verb \in GitHubVerbs, path \in Paths, resp \in Responses :
          GitHubRespond(verb, path, resp)
    \/ \E client \in AtlassianClients, verb \in AtlassianVerbs, path \in Paths, resp \in Responses :
          AtlassianRespond(client, verb, path, resp)

\* ------------------------------------------------- credential construction
Classes == {"GitHubOAuthConfig", "AtlassianBasicAuthConfig", "AtlassianAuthClient"}

\* the values a caller passes for the credential material of a class
ArgValues(cls) ==
    CASE cls = "GitHubOAuthConfig" -> <<"123", "PEM", "42">>
      [] cls = "AtlassianBasicAuthConfig" -> <<"a@x.io", "t1">>
      [] cls = "AtlassianAuthClient" -> <<"cid", "secret">>

\* the values process.env holds for it
EnvValues(cls) ==
    CASE cls = "GitHubOAuthConfig" -> <<"123", "PEM", "42">>
      [] cls = "AtlassianBasicAuthConfig" -> <<"b@x.io", "t2">>
      [] cls = "AtlassianAuthClient" -> <<"cid", "secret">>

\* an optional string that is undefined, empty, or v
Optionals(v) == {Absent, <<"">>, <<v>>}

OptionalSeqs(vals) ==
    { f \in [1..Len(vals) -> UNION { Optionals(vals[i]) : i \in 1..Len(vals) }] :
          \A i \in 1..Len(vals) : f[i] \in Optionals(vals[i]) }

\* constructor calls: the arguments and the environment variables
CtorInputs ==
    UNION { [cls : {cls}, args : OptionalSeqs(ArgValues(cls)), env : OptionalSeqs(EnvValues(cls))] :
                cls \in Classes }

NoCtorInput == [cls |-> "none", args |-> <<>>, env |-> <<>>]

NoInstance == [exists |-> FALSE, cls |-> "none", fields |-> <<>>]

\* `arg ?? process.env.X ?? ''`
coalesce(arg, env) ==
    IF arg # Absent THEN arg[1] ELSE IF env # Absent THEN env[1] ELSE ""

fieldsOf(in) == [i \in 1..Len(in.args) |-> coalesce(in.args[i], in.env[i])]

\* C18 mutant: only the first field is checked
ctorAcceptsFirstField(fields) == fields[1] # ""

\* the constructor's checks: it throws when a field is empty
ctorAccepts(fields) == \A i \in 1..Len(fields) : fields[i] # ""

\* the message of the Error the constructor throws
ctorError(cls, fields) ==
    CASE cls = "GitHubOAuthConfig" ->
            IF fields[1] = "" THEN "Invalid GitHub App ID"
            ELSE IF fields[2] = "" THEN "Invalid GitHub App Private Key"
            ELSE "Invalid GitHub App Installation ID"
      [] cls = "AtlassianBasicAuthConfig" -> "Invalid Atlassian email or api key."
      [] cls = "AtlassianAuthClient" -> "Invalid Atlassian Client ID or Client Secret"

\* btoa(`${email}:${apiToken}`)
btoa(email, apiToken) ==
    CASE email = "a@x.io" /\ apiToken = "t1" -> "YUB4LmlvOnQx"
      [] email = "a@x.io" /\ apiToken = "t2" -> "YUB4LmlvOnQy"
      [] email = "b@x.io" /\ apiToken = "t1" -> "YkB4LmlvOnQx"
      [] email = "b@x.io" /\ apiToken = "t2" -> "YkB4LmlvOnQy"
      [] email = "a@x.io" /\ apiToken = "" -> "YUB4LmlvOg=="
      [] email = "b@x.io" /\ apiToken = "" -> "YkB4LmlvOg=="
      [] OTHER -> "Og=="

\* C19 mutant: the header is built without the API token
getAuthorizationHeaderNoToken(email, apiToken) == <<"Basic ", btoa(email, "")>>

\* AtlassianBasicAuthConfig.getAuthorizationHeader
getAuthorizationHeader(email, apiToken) == <<"Basic ", btoa(email, apiToken)>>

\* the cache test of AtlassianAuthClient.getAccessToken
atlIsFresh(tok, exp, t) == tok # Undefined /\ exp # Undefined /\ exp > t

\* `new Class(args)`: the fields are set, then checked
Construct(in) ==
    /\ auPc = "none"
    /\ auIn' = in
    /\ IF ctorAccepts(fieldsOf(in))
       THEN /\ auInst' = [exists |-> TRUE, cls |-> in.cls, fields |-> fieldsOf(in)]
            /\ auThrown' = ""
            /\ auPc' = "idle"
       ELSE /\ auInst' = NoInstance
            /\ auThrown' = ctorError(in.cls, fieldsOf(in))
            /\ auPc' = "thrown"
    /\ UNCHANGED <<auNow, auAccessToken, auExpiresAt, auTokenRequests, auIssued,
                   auValidUntil, auReqsWhileValid, auHeaders, notAuth>>

\* AtlassianAuthClient.getAccessToken: it answers from the cache, or calls
\* refreshToken, which posts to the token endpoint
AtlGetAccessToken ==
    /\ auPc = "idle"
    /\ auInst.cls = "AtlassianAuthClient"
    /\ auTokenRequests < MaxAuthCalls
    /\ IF atlIsFresh(auAccessToken, auExpiresAt, auNow)
       THEN UNCHANGED <<auTokenRequests, auReqsWhileValid, auPc>>
       ELSE /\ auTokenRequests' = auTokenRequests + 1
            /\ auReqsWhileValid' =
                  IF auValidUntil # Undefined /\ auNow < auValidUntil
                  THEN auReqsWhileValid + 1 ELSE auReqsWhileValid
            /\ auPc' = "awaitToken"
    /\ UNCHANGED <<auIn, auInst, auThrown, auNow, auAccessToken, auExpiresAt,
                   auIssued, auValidUntil, auHeaders, notAuth>>

\* the token endpoint answers 2xx: `return data.access_token`; the readonly
\* fields accessToken and expiresAt are not assigned
AtlTokenResponseOk(life) ==
    /\ auPc = "awaitToken"
    /\ auIssued' = auIssued + 1
    /\ auValidUntil' = auNow + life * Minute
    /\ auPc' = "idle"
    /\ UNCHANGED <<auIn, auInst, auThrown, auNow, auAccessToken, auExpiresAt,
                   auTokenRequests, auReqsWhileValid, auHeaders, notAuth>>

\* the token endpoint answers non-2xx: refreshToken throws
AtlTokenResponseFail ==
    /\ auPc = "awaitToken"
    /\ auPc' = "idle"
    /\ UNCHANGED <<auIn, auInst, auThrown, auNow, auAccessToken, auExpiresAt,
                   auTokenRequests, auIssued, auValidUntil, auReqsWhileValid,
                   auHeaders, notAuth>>

\* AtlassianBasicAuthClient get / post / put: the header is computed and the
\* request is sent with it
BasicGatewayCall(verb) ==
    /\ auPc = "idle"
    /\ auInst.cls = "AtlassianBasicAuthConfig"
    /\ Len(auHeaders) < MaxAuthCalls
    /\ auHeaders' = Append(auHeaders,
                       getAuthorizationHeader(auInst.fields[1], auInst.fields[2]))
    /\ UNCHANGED <<auPc, auIn, auInst, auThrown, auNow, auAccessToken, auExpiresAt,
                   auTokenRequests, auIssued, auValidUntil, auReqsWhileValid, notAuth>>

\* time passes
AuthTick ==
    /\ auPc \in {"idle", "awaitToken"}
    /\ auNow < MaxTime * Minute
    /\ auNow' = auNow + Minute
    /\ UNCHANGED <<auPc, auIn, auInst, auThrown, auAccessToken, auExpiresAt,
                   auTokenRequests, auIssued, auValidUntil, auReqsWhileValid,
                   auHeaders, notAuth>>

InitAuth ==
    /\ auPc = "none"
    /\ auIn = NoCtorInput
    /\ auInst = NoInstance
    /\ auThrown = ""
    /\ auNow = 0
    /\ auAccessToken = Undefined
    /\ auExpiresAt = Undefined
    /\ auTokenRequests = 0
    /\ auIssued = 0
    /\ auValidUntil = Undefined
    /\ auReqsWhileValid = 0
    /\ auHeaders = <<>>

NextAuth ==
    \/ \E in \in CtorInputs : Construct(in)
    \/ AtlGetAccessToken
    \/ \E life \in Lifetimes : AtlTokenResponseOk(life)
    \/ AtlTokenResponseFail
    \/ \E verb \in AtlassianVerbs : BasicGatewayCall(verb)
    \/ AuthTick

\* ----------------------------------------------------- updateConfluencePage
\* the inputs of updateConfluencePage: version is the page's current version
UpdateInputs ==
    [pageId : {"1001", "1002"}, title : {"Spec", "Spec v2"},
     content : {"<p>a</p>", "<p>b</p>"}, version : 0..MaxVersion]

NoUpdateInput == [pageId |-> "", title |-> "", content |-> "", version |-> 0]

\* C20 mutant: the current version is sent unchanged
updateDataSameVersion(in) ==
    [version |-> [number |-> in.version],
     title |-> in.title,
     type |-> "page",
     body |-> [storage |-> [value |-> in.content, representation |-> "storage"]]]

\* `const updateData = {version: {number: version + 1}, title, type, body}`
updateData(in) ==
    [version |-> [number |-> in.version + 1],
     title |-> in.title,
     type |-> "page",
     body |-> [storage |-> [value |-> in.content, representation |-> "storage"]]]

\* execute is called: updateData is built and client.put is called, which
\* first asks the credential provider for a token
UpdateExecute(in) ==
    /\ upPc \in {"idle", "settled"}
    /\ upInput' = in
    /\ upPut' = <<>>
    /\ upResult' = "none"
    /\ upPc' = "auth"
    /\ UNCHANGED notUpdate

\* the credential provider rejects: execute returns {error}
UpdateAuthFail ==
    /\ upPc = "auth"
    /\ upResult' = "error"
    /\ upPc' = "settled"
    /\ UNCHANGED <<upInput, upPut, notUpdate>>

\* client.put sends PUT rest/api/content/${pageId} with JSON.stringify(body)
UpdatePutSend ==
    /\ upPc = "auth"
    /\ upPut' = Append(upPut,
                  [verb |-> "PUT",
                   path |-> <<"rest/api/content/", upInput.pageId>>,
                   body |-> updateData(upInput)])
    /\ upPc' = "awaitHttp"
    /\ UNCHANGED <<upInput, upResult, notUpdate>>

\* the request settles and execute runs to its return
UpdateResponse(outcome) ==
    /\ upPc = "awaitHttp"
    /\ upResult' = onClientResult(IdleInv, ToolOf([tool |-> "updateConfluencePage"]), outcome).result
    /\ upPc' = "settled"
    /\ UNCHANGED <<upInput, upPut, notUpdate>>

InitUpdate ==
    /\ upPc = "idle"
    /\ upInput = NoUpdateInput
    /\ upPut = <<>>
    /\ upResult = "none"

NextUpdate ==
    \/ \E in \in UpdateInputs : UpdateExecute(in)
    \/ UpdateAuthFail
    \/ UpdatePutSend
    \/ \E outcome \in ToolHttpOutcomes : UpdateResponse(outcome)

\* ------------------------------------------------------ markdownToConfluence
\* a text is a sequence of characters; a tag the renderer writes is one
\* element, which no pattern of the renderer treats specially
\* the backtick character (U+0060)
Backtick == "backtick"

MdAlphabet == {"a", "*", "#", Backtick, " ", "\n"}

\* \w
WordChars == {"a", "j", "s"}

\* \s, as trim() strips it
WhiteSpace == {" ", "\n"}

Langs == {<<>>, <<"j", "s">>}

Tick3 == <<Backtick, Backtick, Backtick>>

TextsUpTo(n) == UNION { [1..k -> MdAlphabet] : k \in 0..n }

startsWith(s, i, pat) ==
    /\ i + Len(pat) - 1 <= Len(s)
    /\ SubSeq(s, i, i + Len(pat) - 1) = pat

hasInfix(s, pat) == \E i \in 1..Len(s) : startsWith(s, i, pat)

minOf(S) == CHOOSE m \in S : \A n \in S : m <= n

\* fenced-block bodies: any text without a closing fence of its own
FenceBodies == { b \in TextsUpTo(MaxBody) : ~hasInfix(b, Tick3) }

\* the fenced block "```L\nB\n```"
fenced(lang, body) == Tick3 \o lang \o <<"\n">> \o body \o <<"\n">> \o Tick3

\* the inputs: free texts, and single fenced blocks
MdInputs ==
    { [kind |-> "text", lang |-> <<>>, body |-> <<>>, text |-> t] : t \in TextsUpTo(MaxText) }
    \cup { [kind |-> "fenced", lang |-> l, body |-> b, text |-> fenced(l, b)] :
               l \in Langs, b \in FenceBodies }

NoMdInput == [kind |-> "none", lang |-> <<>>, body |-> <<>>, text |-> <<>>]

\* index of the "\n" that ends the line starting at i, or Len(s) + 1
lineEnd(s, i) ==
    IF \E k \in i..Len(s) : s[k] = "\n"
    THEN minOf({ k \in i..Len(s) : s[k] = "\n" })
    ELSE Len(s) + 1

\* html.replace(/^PREFIX (.*$)/gim, '<hN>$1</hN>'), from the line start i on
RECURSIVE replaceHeader(_, _, _, _, _)
replaceHeader(s, i, prefix, open, close) ==
    IF i > Len(s) THEN <<>>
    ELSE LET e == lineEnd(s, i)
             line == SubSeq(s, i, e - 1)
             newLine == IF startsWith(line, 1, prefix)
                        THEN <<open>> \o SubSeq(line, Len(prefix) + 1, Len(line)) \o <<close>>
                        ELSE line
         IN newLine \o (IF e <= Len(s)
                        THEN <<"\n">> \o replaceHeader(s, e + 1, prefix, open, close)
                        ELSE <<>>)

\* html.replace(/D(.+?)D/g, 'open$1close') for a delimiter D, from i on: the
\* leftmost D, then the shortest non-empty run without "\n" that D follows
RECURSIVE replaceDelimited(_, _, _, _, _)
replaceDelimited(s, i, d, open, close) ==
    IF i > Len(s) THEN <<>>
    ELSE LET n == Len(d)
             ends == { j \in (i + n + 1)..(Len(s) - n + 1) :
                          /\ startsWith(s, j, d)
                          /\ \A k \in (i + n)..(j - 1) : s[k] # "\n" }
         IN IF startsWith(s, i, d) /\ ends # {}
            THEN <<open>> \o SubSeq(s, i + n, minOf(ends) - 1) \o <<close>>
                     \o replaceDelimited(s, minOf(ends) + n, d, open, close)
            ELSE <<s[i]>> \o replaceDelimited(s, i + 1, d, open, close)

\* String.prototype.trim
RECURSIVE trim(_)
trim(s) ==
    IF s = <<>> THEN s
    ELSE IF s[1] \in WhiteSpace THEN trim(Tail(s))
    ELSE IF s[Len(s)] \in WhiteSpace THEN trim(SubSeq(s, 1, Len(s) - 1))
    ELSE s

\* the replacement of a fenced block: the code macro with `lang || 'text'`
\* and code.trim()
codeMacro(lang, code) ==
    <<"<ac:structured-macro ac:name=\"code\">", "\n",
      "        <ac:parameter ac:name=\"language\">">>
        \o (IF lang = <<>> THEN <<"text">> ELSE lang)
        \o <<"</ac:parameter>", "\n", "        <ac:plain-text-body><![CDATA[">>
        \o trim(code)
        \o <<"]]></ac:plain-text-body>", "\n", "      </ac:structured-macro>">>

\* html.replace(/```(\w+)?\n([\s\S]*?)```/g, ...), from i on
RECURSIVE replaceFences(_, _)
replaceFences(s, i) ==
    IF i > Len(s) THEN <<>>
    ELSE LET nonWord == { k \in (i + 3)..Len(s) : s[k] \notin WordChars }
             w == IF nonWord = {} THEN Len(s) + 1 ELSE minOf(nonWord)
             ends == { j \in (w + 1)..(Len(s) - 2) : startsWith(s, j, Tick3) }
         IN IF startsWith(s, i, Tick3) /\ w <= Len(s) /\ s[w] = "\n" /\ ends # {}
            THEN codeMacro(SubSeq(s, i + 3, w - 1), SubSeq(s, w + 1, minOf(ends) - 1))
                     \o replaceFences(s, minOf(ends) + 3)
            ELSE <<s[i]>> \o replaceFences(s, i + 1)

\* html.replace(/\n/g, '<br/>\n')
RECURSIVE replaceLineBreaks(_)
replaceLineBreaks(s) ==
    IF s = <<>> THEN <<>>
    ELSE (IF s[1] = "\n" THEN <<"<br/>", "\n">> ELSE <<s[1]>>) \o replaceLineBreaks(Tail(s))

\* the replace calls of markdownToConfluence, in the order they are written
Rules == <<"h3", "h2", "h1", "bold", "italic", "fence", "inlineCode", "lineBreak">>

applyRule(rule, s) ==
    CASE rule = "h3" -> replaceHeader(s, 1, <<"#", "#", "#", " ">>, "<h3>", "</h3>")
      [] rule = "h2" -> replaceHeader(s, 1, <<"#", "#", " ">>, "<h2>", "</h2>")
      [] rule = "h1" -> replaceHeader(s, 1, <<"#", " ">>, "<h1>", "</h1>")
      [] rule = "bold" -> replaceDelimited(s, 1, <<"*", "*">>, "<strong>", "</strong>")
      [] rule = "italic" -> replaceDelimited(s, 1, <<"*">>, "<em>", "</em>")
      [] rule = "fence" -> replaceFences(s, 1)
      [] rule = "inlineCode" -> replaceDelimited(s, 1, <<Backtick>>, "<code>", "</code>")
      [] rule = "lineBreak" -> replaceLineBreaks(s)

\* `html` after each of the first k replace calls
RECURSIVE stagesOf(_, _)
stagesOf(s, k) ==
    IF k = 0 THEN <<>>
    ELSE LET before == stagesOf(s, k - 1)
             prev == IF k = 1 THEN s ELSE before[k - 1].text
         IN Append(before, [rule |-> Rules[k], text |-> applyRule(Rules[k], prev)])

\* markdownToConfluence(markdown)
markdownToConfluence(markdown) == stagesOf(markdown, Len(Rules))[Len(Rules)].text

\* markdownToConfluence is called with a text and returns
RenderCall(in) ==
    /\ mdPc = "idle"
    /\ mdIn' = in
    /\ mdStages' = stagesOf(in.text, Len(Rules))
    /\ mdOut' = markdownToConfluence(in.text)
    /\ mdTwice' = markdownToConfluence(markdownToConfluence(in.text))
    /\ mdPc' = "returned"
    /\ UNCHANGED notRender

\* the caller takes the result
RenderDone ==
    /\ mdPc = "returned"
    /\ mdPc' = "idle"
    /\ mdIn' = NoMdInput
    /\ mdStages' = <<>>
    /\ mdOut' = <<>>
    /\ mdTwice' = <<>>
    /\ UNCHANGED notRender

InitRender ==
    /\ mdPc = "idle"
    /\ mdIn = NoMdInput
    /\ mdStages = <<>>
    /\ mdOut = <<>>
    /\ mdTwice = <<>>

NextRender ==
    \/ \E in \in MdInputs : RenderCall(in)
    \/ RenderDone

\* -------------------------------------------------------- formatFileStructure
\* the two icons of the template literals
FolderIcon == "U+1F4C1"

FileIcon == "U+1F4C4"

\* a FileNode {path, type, children?}: hasChildren tells `children` from
\* undefined; the paths are given by labelPaths
fileNode == [type |-> "file", path |-> <<>>, hasChildren |-> FALSE, children |-> <<>>]

directoryNode(hasKids, kids) ==
    [type |-> "directory", path |-> <<>>, hasChildren |-> hasKids, children |-> kids]

\* the FileNode lists of exactly n nodes: a first node with its subtree, then
\* the rest of the list
RECURSIVE ForestsOf(_)
ForestsOf(n) ==
    IF n = 0 THEN {<<>>}
    ELSE UNION { { <<first>> \o rest :
                     first \in (IF k = 1 THEN {fileNode, directoryNode(FALSE, <<>>)} ELSE {})
                                  \cup { directoryNode(TRUE, kids) : kids \in ForestsOf(k - 1) },
                     rest \in ForestsOf(n - k) } : k \in 1..n }

\* every node gets a path of its own: its position under its parent's path
RECURSIVE labelPaths(_, _)
labelPaths(nodes, prefix) ==
    [i \in 1..Len(nodes) |->
        [nodes[i] EXCEPT !.path = prefix \o <<i>>,
                         !.children = labelPaths(nodes[i].children, prefix \o <<i>>)]]

\* the structures formatFileStructure is called with
FileStructures == { labelPaths(f, <<>>) : f \in UNION { ForestsOf(n) : n \in 0..MaxNodes } }

\* C27 mutant: children are written at the indent of their parent
childIndentSame(indent) == indent

\* `indent + '  '`; an indent is its number of spaces
childIndent(indent) == indent + 2

\* `${indent}<folder> ${node.path}/\n`
directoryLine(node, indent) ==
    [indent |-> indent, icon |-> FolderIcon, path |-> node.path, suffix |-> "/"]

\* `${indent}<file> ${node.path}\n`
fileLine(node, indent) ==
    [indent |-> indent, icon |-> FileIcon, path |-> node.path, suffix |-> ""]

\* formatFileStructure(structure, indent): the result, line by line
RECURSIVE formatFileStructure(_, _)
formatFileStructure(structure, indent) ==
    IF structure = <<>> THEN <<>>
    ELSE LET node == Head(structure)
             lines == IF node.type = "directory"
                      THEN <<directoryLine(node, indent)>>
                               \o (IF node.hasChildren
                                   THEN formatFileStructure(node.children, childIndent(indent))
                                   ELSE <<>>)
                      ELSE <<fileLine(node, indent)>>
         IN lines \o formatFileStructure(Tail(structure), indent)

\* generatePrompt calls formatFileStructure(githubData.structure)
FormatCall(structure) ==
    /\ fsPc = "idle"
    /\ fsIn' = structure
    /\ fsOut' = formatFileStructure(structure, 0)
    /\ fsPc' = "returned"
    /\ UNCHANGED notFormat

\* the text is put into the prompt
FormatDone ==
    /\ fsPc = "returned"
    /\ fsPc' = "idle"
    /\ fsIn' = <<>>
    /\ fsOut' = <<>>
    /\ UNCHANGED notFormat

InitFormat ==
    /\ fsPc = "idle"
    /\ fsIn = <<>>
    /\ fsOut = <<>>

NextFormat ==
    \/ \E structure \in FileStructures : FormatCall(structure)
    \/ FormatDone

\* ------------------------------------------------------------ specifications
Init == InitCred /\ InitPaged /\ InitTools /\ InitDoc /\ InitAnalyze /\ InitResp /\ InitAuth /\ InitUpdate /\ InitRender /\ InitFormat

SpecCred == Init /\ [][NextCred]_vars

SpecPaged == Init /\ [][NextPaged]_vars

\* getPaginated where every get() it awaits settles: it either rejects before
\* its fetch or sends it, and the fetch resolves or rejects
SpecPagedFair ==
    /\ Init /\ [][NextPaged]_vars
    /\ WF_vars(PageGetSend \/ PageGetAuthFail)
    /\ WF_vars(PageGetHttpFail \/ \E resp \in PageResponses(perPage) : PageResponse(resp))

SpecTools == Init /\ [][NextTools]_vars

SpecDoc == Init /\ [][NextDoc]_vars

SpecAnalyze == Init /\ [][NextAnalyze]_vars

SpecResp == Init /\ [][NextResp]_vars

SpecAuth == Init /\ [][NextAuth]_vars

SpecUpdate == Init /\ [][NextUpdate]_vars

SpecRender == Init /\ [][NextRender]_vars

SpecFormat == Init /\ [][NextFormat]_vars

Next == NextCred \/ NextPaged \/ NextTools \/ NextDoc \/ NextAnalyze \/ NextResp \/ NextAuth \/ NextUpdate \/ NextRender \/ NextFormat

Spec == Init /\ [][Next]_vars

\* ------------------------------------------------------------------ claims

\* C1: single-flight refresh - while one refresh of the instance is in
\* flight, no second request is sent to the token endpoint, so at most one
\* caller is ever waiting on a token request of its own.
C1_SingleFlight ==
    Cardinality({c \in Callers : calls[c].pc = "awaitToken"}) <= 1

\* C2: guard-band reuse rule - a call answers from the cache, sending no
\* token request, exactly when a token is cached whose expiresAt is more than
\* 5 minutes after now; in every other case it sends a token request and the
\* token it later hands out is the one of that refresh.
C2_GuardBandRule ==
    [][/\ \A c \in Callers :
        (calls[c].pc = "idle" /\ calls'[c].pc # "idle") =>
            IF accessToken # Undefined /\ expiresAt > now + 5 * 60 * 1000
            THEN /\ calls'[c].pc = "haveToken"
                 /\ calls'[c].token = accessToken
                 /\ tokenRequests' = tokenRequests
                 /\ calls'[c].treq = 0
            ELSE /\ calls'[c].pc = "awaitToken"
                 /\ tokenRequests' = tokenRequests + 1
                 /\ calls'[c].token = Undefined
       /\ \A c \in Callers :
        (calls[c].pc = "awaitToken" /\ calls'[c].pc = "haveToken") =>
            /\ issued' = issued + 1
            /\ calls'[c].token = issued'
            /\ accessToken' = issued']_vars

C2_Witness ==
    \E c, d \in Callers :
        /\ calls[c].pc = "haveToken" /\ calls[c].treq = 0
        /\ calls[c].token = accessToken
        /\ calls[d].pc = "awaitToken"
        /\ accessToken # Undefined /\ expiresAt = now + GuardBand

\* C3: a failed refresh rejects the call that triggered it, that call sends
\* no API request, and the provider sent exactly one token request for it.
C3_RefreshFailureSurfaced ==
    \A c \in Callers :
        /\ calls[c].treq <= 1
        /\ calls[c].tresp = "fail" =>
              /\ calls[c].pc = "rejectedAuth"
              /\ calls[c].treq = 1
              /\ calls[c].http = 0
        /\ calls[c].pc = "rejectedAuth" => calls[c].tresp = "fail"

C3_Witness ==
    \E c \in Callers :
        /\ calls[c].pc = "rejectedAuth" /\ calls[c].tresp = "fail"
        /\ accessToken # Undefined

\* concatenation of the items of a sequence of responses, in order
RECURSIVE ConcatItems(_)
ConcatItems(rs) ==
    IF rs = <<>> THEN <<>>
    ELSE ConcatItems(SubSeq(rs, 1, Len(rs) - 1)) \o rs[Len(rs)].items

\* a stop event of the page loop on response r: the page holds fewer items
\* than the requested page size, or it is empty (a body that is not an array
\* holds no items)
StopEvent(r) == Len(r.items) < perPage \/ Len(r.items) = 0

\* C4: getPaginated stop rule - no page is requested after a page that is
\* short or empty or after maxPages pages, and the call returns only when one
\* of these events has occurred.
C4_StopRule ==
    /\ Len(reqPages) <= (IF maxPages > 0 THEN maxPages ELSE 0)
    /\ \A i \in 1..Len(fetched) : StopEvent(fetched[i]) => Len(reqPages) = i
    /\ pgPc = "returned" =>
          \/ Len(reqPages) >= maxPages
          \/ Len(fetched) > 0 /\ StopEvent(fetched[Len(fetched)])
    /\ pgPc \in {"getting", "await"} =>
          /\ Len(reqPages) < maxPages \/ pgPc = "await"
          /\ \A i \in 1..Len(fetched) : ~StopEvent(fetched[i])

C4_Witness ==
    /\ pgPc = "returned"
    /\ maxPages = 3
    /\ Len(reqPages) = 2
    /\ Len(fetched[1].items) = perPage
    /\ Len(fetched[2].items) = 1
    /\ perPage = 2

\* C5: getPaginated ordering - pages are requested one at a time with
\* page = 1, 2, 3, ..., request k+1 only after response k, and the results are
\* the concatenation of the fetched pages' items in page order.
C5_PageOrder ==
    /\ \A i \in 1..Len(reqPages) : reqPages[i] = i
    /\ Len(reqPages) = Len(fetched) + (IF pgPc = "await" THEN 1 ELSE 0)
         \/ pgPc = "rejected"
    /\ Len(reqPages) <= Len(fetched) + 1
    /\ results = ConcatItems(fetched)

C5_Witness ==
    /\ pgPc = "returned"
    /\ perPage = 2
    /\ reqPages = <<1, 2, 3>>
    /\ results = <<"a", "b", "b", "a", "a">>
    /\ fetched[3].items = <<"a">>

\* tools whose return statement reads items, issues, results or _links
ShapeSensitive ==
    {"searchRepositories", "searchIssues", "searchJiraIssues",
     "searchConfluenceContent", "getConfluencePage", "createConfluencePage",
     "updateConfluencePage"}

\* a failure inside execute: the credential refresh failed, the Gateway call
\* failed (transport, non-2xx, unparsable body), or the response lacks the
\* fields the tool reads
FailedInside(i) ==
    \/ i.authFailed
    \/ i.outcome \in {"transport", "non2xx", "badJson", "okNull"}
    \/ i.outcome = "okLacking" /\ i.tool \in ShapeSensitive

C7_ValidationBeforeIO ==
    inv.input \notin {"valid", "none"} =>
        /\ inv.sent = 0
        /\ inv.pc = "settled" => inv.result = "error"

\* C8: at-most-once side effects - an invocation of a mutating tool sends at
\* most one request, exactly one once its request has been answered (also
\* with a failure), and that also when the invocation before it had the same
\* tool and input and sent its request: the two send two requests.
C8_AtMostOnce ==
    inv.verb \in MutatingVerbs =>
        /\ inv.sent <= 1
        /\ inv.outcome # "none" => inv.sent = 1
        /\ (/\ inv.outcome # "none"
            /\ lastKey = [tool |-> inv.tool, input |-> inv.input]
            /\ lastSent = 1) => inv.sent + lastSent = 2

C8_Witness ==
    /\ inv.tool = "createConfluencePage"
    /\ inv.input = "valid"
    /\ inv.pc = "settled"
    /\ inv.outcome = "non2xx"
    /\ inv.sent = 1
    /\ lastKey = [tool |-> inv.tool, input |-> inv.input]
    /\ lastSent = 1

\* C9: a Document returned by generateDocument has exactly five sections, of
\* the types overview, requirements, architecture, dataflow,
\* technical-details in this order, also for an empty Jira issue list.
C9_FiveSections ==
    docPc = "returned" =>
        /\ docResult.kind = "document"
        /\ Len(docResult.sections) = 5
        /\ [k \in 1..5 |-> docResult.sections[k].type] =
              <<"overview", "requirements", "architecture", "dataflow",
                "technical-details">>

C9_Witness ==
    /\ docPc = "returned"
    /\ params.jiraIssues = 0
    /\ Len(docResult.sections) = 5

\* C10: pipeline abort on failure - when the generation call of step k
\* rejects, generateDocument rejects with that same error, no Document is
\* returned, and no generation call beyond the k-th has been made.
C10_AbortOnFailure ==
    /\ llmThrown # NoError => docPc = "rejected"
    /\ docPc = "rejected" =>
          /\ docResult = [kind |-> "error", error |-> llmThrown]
          /\ Len(genCalls) = step
          /\ Len(sections) = step - 1
    /\ docPc = "returned" => llmThrown = NoError

C10_Witness ==
    /\ docPc = "rejected"
    /\ step = 3
    /\ Len(sections) = 2
    /\ Len(genCalls) = 3
    /\ docResult.error = llmThrown

\* C11: publish iff space key - a {status: "success"} response of analyze
\* follows exactly one publish call, whose URL is its documentUrl, when a
\* confluenceSpaceKey was supplied, and zero publish calls when none was; the
\* document has been generated in both cases.
C11_PublishIffSpaceKey ==
    (anPc = "responded" /\ anDocument # NoResult /\ anFailure = NoFailure) =>
        /\ anResponse.status = "success"
        /\ truthy(anReq.confluenceSpaceKey) =>
              /\ publishCalls = 1
              /\ anResponse.documentUrl \in PublishUrls
        /\ ~truthy(anReq.confluenceSpaceKey) =>
              /\ publishCalls = 0
              /\ anResponse.documentUrl = Absent

C11_Witness ==
    /\ anPc = "responded"
    /\ anReq.confluenceSpaceKey = <<"DOCS">>
    /\ publishCalls = 1
    /\ anResponse.status = "success"
    /\ anResponse.documentUrl = <<"https://wiki/spaces/DOCS/pages/p2">>

\* C12: analyze never crashes its caller - whenever an awaited call of the
\* handler (repository fetch, Jira fetch, document generation, publish) has
\* failed, the handler has returned {status: "error", error: <the message of
\* the failure>} and thrown nothing.
C12_NeverCrashes ==
    /\ anResponse.status # "thrown"
    /\ anFailure # NoFailure =>
          /\ anPc = "responded"
          /\ anResponse.status = "error"
          /\ anFailure.isError => anResponse.error = anFailure.message
    /\ anPc = "responded" => anResponse.status \in {"success", "error"}

C12_Witness ==
    /\ anPc = "responded"
    /\ publishCalls = 1
    /\ anFailure = [isError |-> TRUE, message |-> "MCP server exited with code 1: "]
    /\ anResponse.status = "error"
    /\ anResponse.error = "MCP server exited with code 1: "

\* sub occurs in s as a run of consecutive pieces
IsInfix(sub, s) ==
    \E i \in 0..(Len(s) - Len(sub)) : SubSeq(s, i + 1, i + Len(sub)) = sub

\* the client method rejected because the response was not 2xx
RejectedNon2xx == rsOut.kind = "rejected" /\ ~ok(rsResp.status)

\* C13: error content of a non-2xx response - the error thrown by
\* GitHubApiClient.handleResponse contains the HTTP status; the upstream
\* message when the body parses as JSON with a message field; and the raw
\* body text when the body does not parse as JSON.
C13_ErrorContent ==
    (rsReq.client = "github" /\ RejectedNon2xx) =>
        /\ IsInfix(<<ToString(rsResp.status.code)>>, rsOut.message)
        /\ (rsResp.body.parses /\ rsResp.body.message # Absent) =>
              IsInfix(rsResp.body.message, rsOut.message)
        /\ (~rsResp.body.parses /\ rsResp.body.raw # "") =>
              IsInfix(<<rsResp.body.raw>>, rsOut.message)

\* C14: endpoint identification on failure - every non-2xx error message
\* names the path of the request that failed, and a 404 with body
\* {"message":"Not Found"} gives a message with the path and "Not Found".
C14_EndpointNamed ==
    RejectedNon2xx =>
        /\ IsInfix(rsReq.path, rsOut.message)
        /\ (rsResp.status.code = 404 /\ rsResp.body.message = <<"Not Found">>) =>
              \/ IsInfix(<<" - ", "Not Found">>, rsOut.message)
              \/ IsInfix(<<" - ", rsResp.body.raw>>, rsOut.message)

C14_Witness ==
    /\ rsReq.client = "github"
    /\ rsReq.path = <<"repos/o/r">>
    /\ rsResp.status.code = 404
    /\ rsResp.body.message = <<"Not Found">>
    /\ rsOut.kind = "rejected"
    /\ rsOut.message[Len(rsOut.message)] = "Not Found"

\* C15: a successful response with status 204 or with an empty body resolves
\* to the empty structured value {} and never fails with a parse error, for
\* every verb of the GitHub and Atlassian clients.
C15_EmptyBodyResolves ==
    (rsReq.client # "none" /\ ok(rsResp.status)
        /\ (rsResp.status.code = 204 \/ rsResp.body.raw = "")) =>
        /\ rsOut.kind = "resolved"
        /\ rsOut.value \in {"{}", "undefined"}

\* C17: every Gateway request is authenticated with a credential obtained
\* for that request - a call that has sent its HTTP request had obtained a
\* token from the credential provider before, the request carries exactly
\* that token as Bearer credential, and a call whose credential acquisition
\* is pending or failed has sent no HTTP request.
C17_AuthenticatedRequest ==
    \A c \in Callers :
        /\ calls[c].http > 0 =>
              /\ calls[c].token \in 1..issued
              /\ calls[c].tresp # "fail"
              /\ calls[c].auth = [scheme |-> "Bearer", token |-> calls[c].token]
        /\ calls[c].pc \in {"idle", "awaitToken", "rejectedAuth", "haveToken"} =>
              calls[c].http = 0
        /\ calls[c].http <= 1

\* a call sent its request with the token of its own refresh while the cache
\* already holds the token of a later refresh
C17_Witness ==
    \E c \in Callers :
        /\ calls[c].pc = "awaitHttp"
        /\ calls[c].http = 1
        /\ calls[c].tresp = "ok"
        /\ calls[c].auth.token = 1
        /\ accessToken = 2

\* C16: the oauth2-client-credentials provider caches its token - once a
\* getAccessToken() of an AtlassianAuthClient has succeeded, no further
\* request goes to the token endpoint while the issued token is valid.
C16_TokenCached ==
    auInst.cls = "AtlassianAuthClient" => auReqsWhileValid = 0

\* credential material i is empty: passed as '', or not passed and neither
\* set nor non-empty in the environment
EmptyMaterial(in, i) ==
    \/ in.args[i] = <<"">>
    \/ in.args[i] = Absent /\ in.env[i] \in {Absent, <<"">>}

\* C18: missing or empty credential material fails at construction - a
\* constructor called with an empty field has thrown and left no instance,
\* and every instance, hence every request sent, has non-empty material.
C18_EmptyMaterialThrows ==
    /\ (auPc # "none" /\ \E i \in 1..Len(auIn.args) : EmptyMaterial(auIn, i)) =>
          /\ auPc = "thrown"
          /\ ~auInst.exists
          /\ auThrown # ""
    /\ auInst.exists => \A i \in 1..Len(auInst.fields) : auInst.fields[i] # ""
    /\ (auTokenRequests > 0 \/ auHeaders # <<>>) => auInst.exists
    /\ auPc = "thrown" => (auTokenRequests = 0 /\ auHeaders = <<>>)

\* the installation id alone is empty and the constructor threw
C18_Witness ==
    /\ auPc = "thrown"
    /\ auIn.cls = "GitHubOAuthConfig"
    /\ auIn.args = << <<"123">>, Absent, <<"">> >>
    /\ auIn.env = << Absent, <<"PEM">>, <<"42">> >>
    /\ auThrown = "Invalid GitHub App Installation ID"

\* C19: Basic-scheme credentials are static - every request sent through
\* AtlassianBasicAuthClient carries 'Basic ' + base64(email:token) of the
\* instance, the same on every call and at every time, and no request goes
\* to a token endpoint.
C19_BasicStatic ==
    auInst.cls = "AtlassianBasicAuthConfig" =>
        /\ auTokenRequests = 0
        /\ \A k \in 1..Len(auHeaders) :
              /\ auHeaders[k] = <<"Basic ", btoa(auInst.fields[1], auInst.fields[2])>>
              /\ auHeaders[k] = auHeaders[1]

C19_Witness ==
    /\ auInst.cls = "AtlassianBasicAuthConfig"
    /\ Len(auHeaders) = 3
    /\ auNow = 2 * Minute
    /\ auHeaders[3] = <<"Basic ", "YkB4LmlvOnQx">>

\* C20: updateConfluencePage sends, in the body of its PUT request,
\* version.number equal to the supplied current version plus exactly one.
C20_VersionPlusOne ==
    \A k \in 1..Len(upPut) :
        /\ upPut[k].verb = "PUT"
        /\ upPut[k].body.version.number = upInput.version + 1

C20_Witness ==
    /\ upPc = "settled"
    /\ upInput.version = 3
    /\ Len(upPut) = 1
    /\ upPut[1].body.version.number = 4
    /\ upResult = "ok"

\* the code-block construct of language l and body b, each line break of the
\* construct itself rendered as a line break
codeBlock(l, b) ==
    <<"<ac:structured-macro ac:name=\"code\">", "<br/>", "\n",
      "        <ac:parameter ac:name=\"language\">">>
        \o (IF l = <<>> THEN <<"text">> ELSE l)
        \o <<"</ac:parameter>", "<br/>", "\n", "        <ac:plain-text-body><![CDATA[">>
        \o b
        \o <<"]]></ac:plain-text-body>", "<br/>", "\n", "      </ac:structured-macro>">>

\* C21: fenced code blocks are rendered verbatim - a fenced block with
\* language tag L and body B renders to one code-block construct of language
\* L whose body is B, with no markdown substitution applied to B.
\* Checked on the bodies that trim() leaves as they are.
C21_FencedVerbatim ==
    (mdPc = "returned" /\ mdIn.kind = "fenced" /\ trim(mdIn.body) = mdIn.body) =>
        mdOut = codeBlock(mdIn.lang, mdIn.body)

\* x holds no markdown syntax
isPlainText(x) == \A i \in 1..Len(x) : x[i] \notin {"*", "#", Backtick}

\* C22: rendering is idempotent on plain text - for a text without markdown
\* syntax, rendering the rendered output again gives the rendered output.
C22_IdempotentOnPlain ==
    (mdPc = "returned" /\ mdIn.kind = "text" /\ isPlainText(mdIn.text)) =>
        mdTwice = mdOut

\* C25: the rewrite rules run in the order headers, emphasis (bold, italic),
\* code spans (fence, then inline code), line breaks, and the text of a
\* fenced block is not processed by the inline-code rule.
C25_RuleOrder ==
    mdPc = "returned" =>
        /\ [k \in 1..Len(mdStages) |-> mdStages[k].rule] =
              <<"h3", "h2", "h1", "bold", "italic", "fence", "inlineCode", "lineBreak">>
        /\ mdIn.kind = "fenced" => mdStages[7].text = mdStages[6].text

\* generation calls made and not yet settled
callsInFlight ==
    Len(genCalls) - Len(sections) - (IF docPc = "rejected" THEN 1 ELSE 0)

\* C23: the steps of generateDocument are strictly sequential - at most one
\* generation call is in flight at any time, call k + 1 is made only after
\* call k has resolved, and the calls are made in the order overview,
\* requirements, architecture, dataflow, technical-details.
C23_Sequential ==
    /\ callsInFlight \in {0, 1}
    /\ docPc = "awaitLLM" => callsInFlight = 1 /\ Len(genCalls) = step
    /\ docPc \in {"returned", "rejected"} => callsInFlight = 0
    /\ Len(genCalls) <= 5
    /\ [k \in 1..Len(genCalls) |-> genCalls[k].template] =
          SubSeq(<<"overview", "requirements", "architecture", "dataflow", "technical">>,
                 1, Len(genCalls))

C23_Witness ==
    /\ docPc = "awaitLLM"
    /\ Len(genCalls) = 5
    /\ Len(sections) = 4
    /\ genCalls[5].template = "technical"

\* C24: the prompt of every step is a function of the section kind and the
\* original context only - whatever texts the earlier steps returned, the k-th
\* prompt is the k-th kind's template over the parameters of the call.
C24_PromptsFromContext ==
    \A k \in 1..Len(genCalls) :
        /\ k <= 5
        /\ genCalls[k] =
              [template |-> <<"overview", "requirements", "architecture", "dataflow",
                              "technical">>[k],
               data |-> params]

C24_Witness ==
    /\ Len(genCalls) = 3
    /\ Len(sections) = 2
    /\ sections[1].content # sections[2].content
    /\ genCalls[3] = [template |-> "architecture", data |-> params]
    /\ params.jiraIssues = 1

\* C26: credential replacement is whole-or-nothing - accessToken and expiresAt
\* are either both unset, when no refresh has succeeded, or both the values of
\* one and the same successful token response; a failed refresh, which caches
\* nothing, leaves both as they were.
C26_WholeOrNothing ==
    IF lastRefresh = NoRefresh
    THEN accessToken = Undefined /\ expiresAt = Undefined
    ELSE /\ accessToken = lastRefresh.token
         /\ expiresAt = lastRefresh.expiresAt
         /\ accessToken # Undefined
         /\ expiresAt # Undefined

\* a refresh succeeded, and a later one of another call failed
C26_Witness ==
    /\ lastRefresh # NoRefresh
    /\ accessToken = lastRefresh.token
    /\ expiresAt = lastRefresh.expiresAt
    /\ \E c \in Callers : calls[c].pc = "rejectedAuth" /\ calls[c].tresp = "fail"
    /\ tokenRequests = 2

\* C30: overlapping refreshes, last response wins - once no token request is
\* outstanding, the cache holds the token and expiry of the response processed
\* last, whichever of the expiry times is the later one.
C30_LastResponseWins ==
    ((\A c \in Callers : calls[c].pc # "awaitToken") /\ issued > 0) =>
        /\ accessToken = issued
        /\ expiresAt = lastRefresh.expiresAt
        /\ \A c \in Callers : calls[c].tresp = "ok" => calls[c].token <= accessToken

\* two refreshes overlapped and both succeeded; the response processed last
\* expires before the one it replaced
C30_Witness ==
    /\ \A c \in Callers : calls[c].pc = "haveToken" /\ calls[c].treq = 1
    /\ calls[1].token # calls[2].token
    /\ accessToken = 2
    /\ lastRefresh.replacedLater
    /\ expiresAt = lastRefresh.expiresAt

\* C28: getPaginated is bounded - it sends at most max(maxPages, 0) GET
\* requests and then returns or rejects; with maxPages < 1 it sends none and
\* returns the empty list; a page that is not an array ends the loop and the
\* items accumulated before it are returned; a failed page request rejects the
\* call at that request, and nothing is returned.
C28_Bounded ==
    /\ [](/\ Len(reqPages) <= (IF maxPages > 0 THEN maxPages ELSE 0)
          /\ (maxPages < 1 /\ pgPc # "idle") =>
                pgPc = "returned" /\ reqPages = <<>> /\ results = <<>>
          /\ \A i \in 1..Len(fetched) :
                ~fetched[i].isArray =>
                    /\ i = Len(fetched)
                    /\ Len(reqPages) = i
                    /\ pgPc = "returned"
                    /\ results = ConcatItems(SubSeq(fetched, 1, i - 1))
          /\ pgPc = "rejected" =>
                Len(reqPages) \in {Len(fetched), Len(fetched) + 1})
    /\ (pgPc \in {"getting", "await"}) ~> (pgPc \in {"returned", "rejected"})
    /\ [][(pgPc \in {"returned", "rejected"}) => (pageVars' = pageVars)]_vars

C28_Witness ==
    /\ pgPc = "returned"
    /\ maxPages = 3
    /\ Len(fetched) = 2
    /\ ~fetched[2].isArray
    /\ reqPages = <<1, 2>>
    /\ results = fetched[1].items
    /\ Len(results) = 2

\* the calls of the try block of part_002, in the order they are written
AnalyzeSteps ==
    <<"getGithubRepository", "getJiraIssues", "generateDocument", "postToConfluence">>

\* C29: ordering inside analyze - repository data, Jira issues, document
\* generation and publish are called in this order, each after the one before
\* it resolved; publish is called only once a document of five sections has
\* been generated; and when an earlier step fails, publish is never called for
\* that request.
C29_AnalyzeOrder ==
    /\ anCalls = SubSeq(AnalyzeSteps, 1, Len(anCalls)) \/ anCalls = <<"generateText">>
    /\ Len(anCalls) <= 4
    /\ publishCalls = Cardinality({k \in 1..Len(anCalls) : anCalls[k] = "postToConfluence"})
    /\ publishCalls > 0 =>
          /\ anDocument # NoResult
          /\ Len(anDocument.sections) = 5
          /\ [k \in 1..5 |-> anDocument.sections[k].type] =
                <<"overview", "requirements", "architecture", "dataflow",
                  "technical-details">>
    /\ (anFailure # NoFailure /\ anDocument = NoResult) => publishCalls = 0
    /\ (anFailure # NoFailure /\ anDocument # NoResult) =>
          anCalls[Len(anCalls)] = "postToConfluence"

\* generateDocument rejected in a request that carries a space key
C29_Witness ==
    /\ anPc = "responded"
    /\ truthy(anReq.confluenceSpaceKey)
    /\ anCalls = <<"getGithubRepository", "getJiraIssues", "generateDocument">>
    /\ anFailure # NoFailure
    /\ publishCalls = 0
    /\ anResponse.status = "error"

\* the nodes of a FileNode list, with those of their subtrees
RECURSIVE nodesOf(_)
nodesOf(nodes) ==
    UNION { {nodes[i]} \cup nodesOf(nodes[i].children) : i \in 1..Len(nodes) }

\* p comes before q in depth-first input order: p is an ancestor of q, or
\* they part at a position where p takes the earlier child
precedes(p, q) ==
    \/ Len(p) < Len(q) /\ SubSeq(q, 1, Len(p)) = p
    \/ \E k \in 1..Len(p) :
          /\ k <= Len(q)
          /\ SubSeq(p, 1, k - 1) = SubSeq(q, 1, k - 1)
          /\ p[k] < q[k]

\* C27: formatFileStructure writes one line per node, in depth-first input
\* order, a directory's line immediately before the lines of its children,
\* each child two spaces deeper than its parent, and directory lines carry
\* the folder icon and a trailing "/" where file lines carry the file icon.
C27_DepthFirst ==
    fsPc = "returned" =>
        /\ Len(fsOut) = Cardinality(nodesOf(fsIn))
        /\ \A n \in nodesOf(fsIn) :
              /\ Cardinality({i \in 1..Len(fsOut) : fsOut[i].path = n.path}) = 1
              /\ \A i \in 1..Len(fsOut) :
                    fsOut[i].path = n.path =>
                        /\ fsOut[i].indent = 2 * (Len(n.path) - 1)
                        /\ IF n.type = "directory"
                           THEN fsOut[i].icon = FolderIcon /\ fsOut[i].suffix = "/"
                           ELSE fsOut[i].icon = FileIcon /\ fsOut[i].suffix = ""
                        /\ n.children # <<>> =>
                              /\ i < Len(fsOut)
                              /\ fsOut[i + 1].path = n.children[1].path
        /\ \A i, j \in 1..Len(fsOut) : i < j => precedes(fsOut[i].path, fsOut[j].path)
        /\ FolderIcon # FileIcon

\* a directory holding a directory holding a file, and a file after them
C27_Witness ==
    /\ fsPc = "returned"
    /\ Len(fsOut) = 4
    /\ [i \in 1..4 |-> fsOut[i].path] = << <<1>>, <<1, 1>>, <<1, 1, 1>>, <<2>> >>
    /\ [i \in 1..4 |-> fsOut[i].indent] = <<0, 2, 4, 0>>
    /\ [i \in 1..4 |-> fsOut[i].icon] = <<FolderIcon, FolderIcon, FileIcon, FileIcon>>

====
